---- MODULE Spec2Model ----
(***************************************************************************)
(* Evidence retrieval, fusion and adaptive query planning of the           *)
(* precision-oncology agent: OncoIntelligenceAgent (src/src/agent.py) and  *)
(* OncoRAGEngine (src/src/rag_engine.py).                                  *)
(*                                                                         *)
(* Scores are Python floats in the source.  Here a score is an integer     *)
(* number of 1/10000 units (0.30 is 3000) and a collection weight is an    *)
(* integer number of hundredths (0.18 is 18), so that raw * weight is      *)
(* exact for the raw scores the model uses.                                *)
(***************************************************************************)
EXTENDS Integers, Sequences, FiniteSets, TLC

VARIABLES
    \* ---- OncoIntelligenceAgent.run ----
    pc,              \* position of run(): idle, search, evaluated, done, raised
    question,        \* the question run() was called with
    plan,            \* the SearchPlan built by search_plan
    queries_to_run,  \* the queries of the current SEARCH pass
    qi,              \* index of the next query of the pass
    attempt,         \* the for-loop variable of run()
    all_evidence,    \* the accumulator of run()
    verdict,         \* last result of evaluate_evidence
    handed,          \* the evidence list of the AgentResponse built by synthesize
    \* ---- environment of run(): vector store, embedder, expander ----
    corpus,          \* which records the vector store holds
    down,            \* collections whose search raises on every call
    expander,        \* query_expander of the engine: absent, noterms, terms
    faults,          \* transient search failures so far
    \* ---- history of run() ----
    passes,          \* SEARCH passes started
    embedFault,      \* the embedding function raised in this run
    sent_filters,    \* filters of the store calls of the last query, by collection
    \* ---- evaluate_evidence on its own ----
    ev_list,         \* an evidence list
    ev_verdict,      \* evaluate_evidence(ev_list)
    \* ---- OncoRAGEngine._search_all_collections on its own ----
    fan_pc,          \* idle, running, returned, raised
    fan_filter,      \* collections_filter argument (<<>> is None / empty)
    fan_down,        \* collections whose search raises on every call
    fan_hung,        \* collections whose search call never returns
    fut,             \* state of each submitted future
    fut_result,      \* result stored in each finished future
    all_hits,        \* the accumulator of _search_all_collections
    \* ---- OncoRAGEngine._merge_and_rank on its own ----
    mr_pad,          \* the list the input list started from
    mr_input,        \* hits argument
    mr_output,       \* _merge_and_rank(hits)
    mr_again,        \* _merge_and_rank applied to that result
    \* ---- one hit under a changing collection weight ----
    wt_raw,          \* the similarity score the store returned for the hit
    wt_weight,       \* cfg["weight"] of the hit's collection, in hundredths
    wt_before,       \* the other hits of the batch that arrived before it
    wt_after,        \* the other hits of the batch that arrived after it
    wt_ranked,       \* _merge_and_rank of the batch
    \* ---- search calls on a store that may hand out the same objects again ----
    sh_mode,         \* fresh: new objects at every call; shared: the same ones
    sh_heap,         \* the hit objects that exist, by identity
    sh_calls,        \* calls of _search_all_collections so far
    sh_produced,     \* identities of the hits the calls returned
    \* ---- retrieve under the completion orders of its batches ----
    rt_orders,       \* completion order of the primary and of the expanded batch
    rt_result,       \* the ranked list retrieve returned
    rt_batches,      \* calls of _search_all_collections the call made
    rt_embeds        \* calls of _embed_query the call made

runVars  == <<pc, question, plan, queries_to_run, qi, attempt, all_evidence,
              verdict, handed, corpus, down, expander, faults, passes,
              embedFault, sent_filters>>
evalVars == <<ev_list, ev_verdict>>
fanVars  == <<fan_pc, fan_filter, fan_down, fan_hung, fut, fut_result, all_hits>>
mergeVars == <<mr_pad, mr_input, mr_output, mr_again>>
\* the state of the operations exercised on their own
weightVars == <<wt_raw, wt_weight, wt_before, wt_after, wt_ranked>>
sharedVars == <<sh_mode, sh_heap, sh_calls, sh_produced>>
retrieveVars == <<rt_orders, rt_result, rt_batches, rt_embeds>>
unitVars == <<mergeVars, weightVars, sharedVars, retrieveVars>>
vars     == <<runVars, sent_filters, evalVars, fanVars, unitVars>>

-----------------------------------------------------------------------------
(* Bounds of the model *)

\* transient vector-store failures in one run()
MaxFaults == 1
\* length of the evidence lists evaluate_evidence is applied to
MaxEvidenceLen == 4
\* length of the collections_filter lists _search_all_collections is called with
MaxFilterLen == 2
\* hits appended to the starting list _merge_and_rank is applied to
MaxMergeLen == 3
\* how far the weight of a collection is raised, in hundredths
MaxWeightRaise == 3
\* calls of _search_all_collections on the same store
MaxCalls == 2

-----------------------------------------------------------------------------
(* Program constants *)

\* a retry bound that is one too large
MAX_RETRIES_one_more == 2 + 1

MAX_RETRIES == 2
MIN_SUFFICIENT_HITS == 3
MIN_COLLECTIONS_FOR_SUFFICIENT == 2
\* 0.30
MIN_SIMILARITY_SCORE == 3000
\* the 0.50 of the first "sufficient" test
AVG_SCORE_CONFIDENT == 5000
MAX_EVIDENCE == 30
\* ThreadPoolExecutor(max_workers=min(len(target_collections), 8))
MAX_POOL == 8

COLLECTION_CONFIG ==
    [ onco_variants    |-> [weight |-> 18, filter_field |-> "gene", year_field |-> "None"],
      onco_literature  |-> [weight |-> 16, filter_field |-> "gene", year_field |-> "year"],
      onco_therapies   |-> [weight |-> 14, filter_field |-> "None", year_field |-> "None"],
      onco_guidelines  |-> [weight |-> 12, filter_field |-> "None", year_field |-> "year"],
      onco_trials      |-> [weight |-> 10, filter_field |-> "None", year_field |-> "start_year"],
      onco_biomarkers  |-> [weight |-> 8,  filter_field |-> "None", year_field |-> "None"],
      onco_resistance  |-> [weight |-> 7,  filter_field |-> "gene", year_field |-> "None"],
      onco_pathways    |-> [weight |-> 6,  filter_field |-> "None", year_field |-> "None"],
      onco_outcomes    |-> [weight |-> 4,  filter_field |-> "None", year_field |-> "None"],
      onco_cases       |-> [weight |-> 2,  filter_field |-> "None", year_field |-> "None"],
      genomic_evidence |-> [weight |-> 3,  filter_field |-> "None", year_field |-> "None"] ]

\* list(COLLECTION_CONFIG.keys()): dictionary order
CollectionOrder ==
    << "onco_variants", "onco_literature", "onco_therapies", "onco_guidelines",
       "onco_trials", "onco_biomarkers", "onco_resistance", "onco_pathways",
       "onco_outcomes", "onco_cases", "genomic_evidence" >>

CollectionNames == DOMAIN COLLECTION_CONFIG

-----------------------------------------------------------------------------
(* Sequences *)

Range(s) == { s[i] : i \in DOMAIN s }

RECURSIVE SumScores(_)
SumScores(s) == IF s = <<>> THEN 0 ELSE Head(s).score + SumScores(Tail(s))

RECURSIVE Flatten(_)
Flatten(ss) == IF ss = <<>> THEN <<>> ELSE Head(ss) \o Flatten(Tail(ss))

\* s[-n:] in place of s[:n]
Take_from_end(s, n) == IF Len(s) <= n THEN s ELSE SubSeq(s, Len(s) - n + 1, Len(s))

Take(s, n) == IF Len(s) <= n THEN s ELSE SubSeq(s, 1, n)

Min(a, b) == IF a <= b THEN a ELSE b

\* Op(x) with x evaluated once: TLC evaluates an operator's argument anew at
\* every use of the parameter
Strict(Op(_), x) == CHOOSE r \in { Op(v) : v \in {x} } : TRUE

-----------------------------------------------------------------------------
(* SearchHit.  raw is history: the similarity score the vector store        *)
(* returned, which the source overwrites when it applies the weight.        *)
(* scored = FALSE is an item whose score attribute is None or absent;       *)
(* collection = NoCollection is an item with no collection attribute.       *)

NoCollection == "<no collection attribute>"

SearchHit(id, coll, rawScore) ==
    [record_id |-> id, collection |-> coll, score |-> rawScore,
     raw |-> rawScore, scored |-> TRUE]

-----------------------------------------------------------------------------
(* OncoIntelligenceAgent.evaluate_evidence *)

\* the filter loop: an item is dropped when it has a score below 0.30
ScoredEvidence(evidence) ==
    LET Keep(e) == ~(e.scored /\ e.score < MIN_SIMILARITY_SCORE)
    IN  SelectSeq(evidence, Keep)

\* the collections counted only when every item names its collection
CollectionsRepresented_all_named(scored_evidence) ==
    IF \E e \in Range(scored_evidence) : e.collection = NoCollection
    THEN {}
    ELSE { e.collection : e \in Range(scored_evidence) }

\* collections_represented: the items without a collection attribute add none
CollectionsRepresented(scored_evidence) ==
    { e.collection : e \in Range(scored_evidence) } \ {NoCollection}

\* avg_score >= 0.50, with avg_score = sum(scores) / len(scores), 0.0 if none
AvgScoreConfident(scored_evidence) ==
    LET HasScore(e) == e.scored
        scores == SelectSeq(scored_evidence, HasScore)
    IN  /\ scores # <<>>
        /\ SumScores(scores) >= AVG_SCORE_CONFIDENT * Len(scores)

\* evaluate_evidence without its second "sufficient" test: the average score gates
evaluate_evidence_avg_gated(evidence) ==
    IF evidence = <<>> THEN "insufficient"
    ELSE LET scored_evidence == ScoredEvidence(evidence)
             hit_count == Len(scored_evidence)
             collections_represented == CollectionsRepresented(scored_evidence)
         IN  IF /\ hit_count >= MIN_SUFFICIENT_HITS
                /\ Cardinality(collections_represented) >= MIN_COLLECTIONS_FOR_SUFFICIENT
                /\ AvgScoreConfident(scored_evidence)
             THEN "sufficient"
             ELSE IF hit_count > 0 THEN "partial"
             ELSE "insufficient"

evaluate_evidence(evidence) ==
    IF evidence = <<>> THEN "insufficient"
    ELSE LET scored_evidence == ScoredEvidence(evidence)
             hit_count == Len(scored_evidence)
             collections_represented == CollectionsRepresented(scored_evidence)
         IN  IF /\ hit_count >= MIN_SUFFICIENT_HITS
                /\ Cardinality(collections_represented) >= MIN_COLLECTIONS_FOR_SUFFICIENT
                /\ AvgScoreConfident(scored_evidence)
             THEN "sufficient"
             ELSE IF /\ hit_count >= MIN_SUFFICIENT_HITS
                     /\ Cardinality(collections_represented) >= MIN_COLLECTIONS_FOR_SUFFICIENT
             THEN "sufficient"
             ELSE IF hit_count > 0 THEN "partial"
             ELSE "insufficient"

-----------------------------------------------------------------------------
(* OncoRAGEngine._merge_and_rank *)

\* the elements of s at the positions in keep, in the order of s
AtPositions(s, keep) ==
    [k \in 1..Cardinality(keep) |->
        s[CHOOSE i \in keep : Cardinality({ j \in keep : j <= i }) = k]]

\* a loop that keeps the last occurrence of each record_id
Dedupe_keep_last(hits) ==
    AtPositions(hits, { i \in DOMAIN hits :
                          \A j \in (i + 1)..Len(hits) : hits[j].record_id # hits[i].record_id })

\* the seen_ids loop: the first occurrence of each record_id is kept
Dedupe(hits) ==
    AtPositions(hits, { i \in DOMAIN hits :
                          \A j \in 1..(i - 1) : hits[j].record_id # hits[i].record_id })

\* a sort that puts the hits of equal score in the reverse of their input order
SortDesc_ties_reversed(hits) ==
    LET place(i) ==
            1 + Cardinality({ j \in DOMAIN hits : hits[j].score > hits[i].score })
              + Cardinality({ j \in (i + 1)..Len(hits) : hits[j].score = hits[i].score })
    IN  [k \in 1..Len(hits) |-> hits[CHOOSE i \in DOMAIN hits : place(i) = k]]

\* unique.sort(key=lambda h: h.score, reverse=True): a stable sort, so a hit
\* comes after the hits of higher score and after the earlier hits of its score
SortDesc(hits) ==
    LET place(i) ==
            1 + Cardinality({ j \in DOMAIN hits : hits[j].score > hits[i].score })
              + Cardinality({ j \in 1..(i - 1) : hits[j].score = hits[i].score })
    IN  [k \in 1..Len(hits) |-> hits[CHOOSE i \in DOMAIN hits : place(i) = k]]

merge_and_rank(hits) ==
    LET Cap(sorted) == Take(sorted, MAX_EVIDENCE)
        Rank(unique) == Strict(Cap, SortDesc(unique))
        Merge(h) == Strict(Rank, Dedupe(h))
    IN  Strict(Merge, hits)

-----------------------------------------------------------------------------
(* OncoIntelligenceAgent.search_plan.  A question is its text (an id) and   *)
(* the vocabulary entries that occur in it as substrings (genes and cancer  *)
(* types in the upper-cased text; aliases, topic keywords and comparative   *)
(* signals in the lower-cased text).  A query string is a tuple of its      *)
(* parts.                                                                   *)

\* the part of each vocabulary the questions of the model draw on, in the
\* order the source iterates it
KNOWN_GENES == << "BRAF", "EGFR" >>
KNOWN_CANCER_TYPES == << "NSCLC", "MELANOMA" >>
CANCER_ALIASES == << <<"lung", "NSCLC">>, <<"skin cancer", "MELANOMA">> >>
topic_keywords ==
    << <<"resistance", "therapeutic resistance">>,
       <<"biomarker", "biomarker identification">>,
       <<"clinical trial", "clinical trials">>,
       <<"combination", "combination therapy">> >>
comparative_signals == {"compare", "vs", "versus", "difference between", "head to head"}

NoQuestion == [text |-> "", mentions |-> {}]

\* [x for x in vocabulary if x in q]
Mentioned(vocabulary, q) ==
    LET In(x) == x \in q.mentions IN SelectSeq(vocabulary, In)

\* the alias loop: append the canonical name of a matched alias unless present
RECURSIVE ResolveAliases(_, _, _)
ResolveAliases(aliases, q, acc) ==
    IF aliases = <<>> THEN acc
    ELSE LET alias == Head(aliases)[1]
             canonical == Head(aliases)[2]
         IN  IF alias \in q.mentions /\ canonical \notin Range(acc)
             THEN ResolveAliases(Tail(aliases), q, Append(acc, canonical))
             ELSE ResolveAliases(Tail(aliases), q, acc)

\* the topic loop: append the topic of a matched keyword unless present
RECURSIVE IdentifyTopics(_, _, _)
IdentifyTopics(keywords, q, acc) ==
    IF keywords = <<>> THEN acc
    ELSE LET kw == Head(keywords)[1]
             topic == Head(keywords)[2]
         IN  IF kw \in q.mentions /\ topic \notin Range(acc)
             THEN IdentifyTopics(Tail(keywords), q, Append(acc, topic))
             ELSE IdentifyTopics(Tail(keywords), q, acc)

RECURSIVE Unique(_, _)
Unique(items, seen) ==
    IF items = <<>> THEN <<>>
    ELSE IF Head(items) \in seen THEN Unique(Tail(items), seen)
         ELSE <<Head(items)>> \o Unique(Tail(items), seen \cup {Head(items)})

decompose_question(q, genes, cancer_types, topics) ==
    LET cancer0 == IF cancer_types # <<>> THEN cancer_types[1] ELSE ""
        gene0 == IF genes # <<>> THEN genes[1] ELSE ""
        per_gene ==
            IF Len(genes) > 1
            THEN [i \in 1..Len(genes) |-> <<"What is the role of", genes[i], "in", cancer0>>]
            ELSE <<>>
        per_cancer ==
            IF Len(cancer_types) > 1
            THEN [i \in 1..Len(cancer_types) |->
                    <<gene0, "therapeutic landscape in", cancer_types[i]>>]
            ELSE <<>>
        resistance ==
            IF "therapeutic resistance" \in Range(topics) /\ genes # <<>>
            THEN << <<"Mechanisms of resistance to", gene0, "inhibitors">> >> ELSE <<>>
        trials ==
            IF "clinical trials" \in Range(topics)
            THEN << <<"Active clinical trials", gene0, cancer0>> >> ELSE <<>>
        biomarkers ==
            IF "biomarker identification" \in Range(topics)
            THEN << <<"Predictive biomarkers", cancer0>> >> ELSE <<>>
        combination ==
            IF "combination therapy" \in Range(topics) /\ genes # <<>>
            THEN << <<"Combination strategies with", gene0, "inhibitors">> >> ELSE <<>>
    IN  Unique(per_gene \o per_cancer \o resistance \o trials \o biomarkers \o combination, {})

\* a selection that tests for genes and cancer types first
select_strategy_targeted_first(q, target_genes, relevant_cancer_types) ==
    IF target_genes # <<>> /\ relevant_cancer_types # <<>> THEN "targeted"
    ELSE IF q.mentions \cap comparative_signals # {} THEN "comparative"
    ELSE "broad"

\* the if / elif / else that sets search_strategy
select_strategy(q, target_genes, relevant_cancer_types) ==
    IF q.mentions \cap comparative_signals # {} THEN "comparative"
    ELSE IF target_genes # <<>> /\ relevant_cancer_types # <<>> THEN "targeted"
    ELSE "broad"

search_plan(q) ==
    LET target_genes == Mentioned(KNOWN_GENES, q)
        relevant_cancer_types ==
            ResolveAliases(CANCER_ALIASES, q, Mentioned(KNOWN_CANCER_TYPES, q))
        identified_topics == IdentifyTopics(topic_keywords, q, <<>>)
        search_strategy == select_strategy(q, target_genes, relevant_cancer_types)
    IN  [ question |-> <<q.text>>,
          identified_topics |-> identified_topics,
          target_genes |-> target_genes,
          relevant_cancer_types |-> relevant_cancer_types,
          search_strategy |-> search_strategy,
          sub_questions |->
              decompose_question(q, target_genes, relevant_cancer_types, identified_topics) ]

\* fallbacks that leave out the cancer types once the strategy is broad
generate_fallback_queries_by_strategy(p) ==
    LET per_gene ==
            Flatten([i \in 1..Len(p.target_genes) |->
                << <<p.target_genes[i], "oncology therapeutic implications">>,
                   <<p.target_genes[i], "mutation clinical significance">> >>])
        per_cancer ==
            IF p.search_strategy = "broad" THEN <<>>
            ELSE [i \in 1..Len(p.relevant_cancer_types) |->
                    <<p.relevant_cancer_types[i], "precision medicine current landscape">>]
        fallbacks == per_gene \o per_cancer
    IN  IF fallbacks = <<>>
        THEN << p.question \o <<"precision oncology">> >>
        ELSE fallbacks

\* fallbacks with one query per gene
generate_fallback_queries_one_per_gene(p) ==
    LET per_gene ==
            [i \in 1..Len(p.target_genes) |->
                <<p.target_genes[i], "oncology therapeutic implications">>]
        per_cancer ==
            [i \in 1..Len(p.relevant_cancer_types) |->
                <<p.relevant_cancer_types[i], "precision medicine current landscape">>]
        fallbacks == per_gene \o per_cancer
    IN  IF fallbacks = <<>>
        THEN << p.question \o <<"precision oncology">> >>
        ELSE fallbacks

generate_fallback_queries(p) ==
    LET per_gene ==
            Flatten([i \in 1..Len(p.target_genes) |->
                << <<p.target_genes[i], "oncology therapeutic implications">>,
                   <<p.target_genes[i], "mutation clinical significance">> >>])
        per_cancer ==
            [i \in 1..Len(p.relevant_cancer_types) |->
                <<p.relevant_cancer_types[i], "precision medicine current landscape">>]
        fallbacks == per_gene \o per_cancer
    IN  IF fallbacks = <<>>
        THEN << p.question \o <<"precision oncology">> >>
        ELSE fallbacks


-----------------------------------------------------------------------------
(* The vector store (collection_manager), outside the program: what         *)
(* search(collection, vector, top_k, filters) returns for each collection.  *)
(* A corpus gives the <<record id, raw similarity score>> pairs of each     *)
(* collection; a collection it does not name holds nothing.  The records a  *)
(* call returns are fresh objects.                                          *)

Corpus ==
    [ empty |-> [c \in {} |-> <<>>],
      \* 5 hits across 3 collections, cosine similarities >= 0.5
      five  |-> [ onco_variants   |-> << <<"v1", 9000>>, <<"v2", 8000>> >>,
                  onco_literature |-> << <<"l1", 8500>>, <<"l2", 6000>> >>,
                  onco_trials     |-> << <<"t1", 7000>> >> ],
      \* a store whose metric is not normalised to [0, 1]
      hot   |-> [ onco_variants   |-> << <<"v1", 25000>>, <<"v2", 20000>> >>,
                  onco_literature |-> << <<"l1", 25000>> >>,
                  onco_trials     |-> << <<"t1", 7000>> >> ],
      \* two collections whose best hits have the same weighted score:
      \* 0.50 * 0.18 = 0.5625 * 0.16 = 0.09
      tie   |-> [ onco_variants   |-> << <<"v1", 5000>> >>,
                  onco_literature |-> << <<"l1", 5625>> >>,
                  onco_trials     |-> << <<"t1", 7000>> >> ],
      \* one record id held by two collections
      twin  |-> [ onco_variants   |-> << <<"x1", 9000>> >>,
                  onco_literature |-> << <<"x1", 9000>> >>,
                  onco_trials     |-> << <<"t1", 7000>> >> ],
      \* a store with a metric that is not normalised and two records in all
      pair  |-> [ onco_variants   |-> << <<"v1", 25000>> >>,
                  onco_literature |-> << <<"l1", 25000>> >> ] ]

\* the stores the agent's runs are checked on
CorpusNames == {"empty", "five", "hot"}

\* the collections some corpus holds records of
Populated == {"onco_variants", "onco_literature", "onco_trials"}

StoreHits(corp, coll) ==
    IF coll \in DOMAIN Corpus[corp]
    THEN LET rows == Corpus[corp][coll]
         IN  [i \in 1..Len(rows) |-> SearchHit(rows[i][1], coll, rows[i][2])]
    ELSE <<>>

-----------------------------------------------------------------------------
(* OncoRAGEngine._search_all_collections *)

\* target_collections
TargetCollections(collections_filter) ==
    LET InTable(c) == c \in CollectionNames
    IN  IF collections_filter # <<>>
        THEN SelectSeq(collections_filter, InTable)
        ELSE CollectionOrder

\* a weight that counts against the hit: score * (1 - weight)
Weighted_complement(score, weight) == (score * (100 - weight)) \div 100

\* hit.score *= weight, the weight in hundredths
Weighted(score, weight) == (score * weight) \div 100

\* the loop of _search_one over the hits the store returned
ApplyWeight(hit, coll_name) ==
    [hit EXCEPT !.score = Weighted(hit.score, COLLECTION_CONFIG[coll_name].weight),
                !.collection = coll_name]

\* what the except branch of _search_one makes of a store call that raised
SearchFailed == [raised |-> FALSE, hits |-> <<>>]

\* _search_one(coll_name): the future's outcome
search_one(coll_name, store_raises, store_hits) ==
    IF store_raises THEN SearchFailed
    ELSE [raised |-> FALSE,
          hits |-> [i \in 1..Len(store_hits) |-> ApplyWeight(store_hits[i], coll_name)]]

\* all_hits = future.result() in place of extend
ExtendWith_assign(hits, outcome) ==
    IF outcome.raised THEN hits ELSE outcome.hits

\* an extend whose hits land twice
ExtendWith_twice(hits, outcome) ==
    IF outcome.raised THEN hits ELSE hits \o outcome.hits \o outcome.hits

\* all_hits.extend(future.result()) inside try/except
ExtendWith(hits, outcome) ==
    IF outcome.raised THEN hits ELSE hits \o outcome.hits

RECURSIVE CollectAll(_, _)
CollectAll(outcomes, hits) ==
    IF outcomes = <<>> THEN hits
    ELSE LET Rest(h) == CollectAll(Tail(outcomes), h)
         IN  Strict(Rest, ExtendWith(hits, Head(outcomes)))

\* one call of _search_all_collections over the full table: failing are the
\* collections whose store call raises, order is the order in which the futures
\* complete.  ThreadPoolExecutor(max_workers=0) raises ValueError.
search_all_collections_uncaught(corp, collections_filter, failing, order) ==
    LET targets == TargetCollections(collections_filter)
    IN  IF Min(Len(targets), MAX_POOL) = 0 \/ Range(targets) \cap failing # {}
        THEN [raised |-> TRUE, hits |-> <<>>]
        ELSE [raised |-> FALSE,
              hits |-> CollectAll(
                  [i \in 1..Len(order) |->
                      search_one(order[i], FALSE, StoreHits(corp, order[i]))], <<>>)]

search_all_collections(corp, collections_filter, failing, order) ==
    LET targets == TargetCollections(collections_filter)
    IN  IF Min(Len(targets), MAX_POOL) = 0
        THEN [raised |-> TRUE, hits |-> <<>>]
        ELSE LET Collect(outcomes) == CollectAll(outcomes, <<>>)
             IN  [raised |-> FALSE,
                  hits |-> Strict(Collect,
                      [i \in 1..Len(order) |->
                          search_one(order[i], order[i] \in failing,
                                     StoreHits(corp, order[i]))])]

\* the orders in which the futures of targets can complete, up to the position
\* of the collections that hold no record (their outcome adds no hit)
CompletionOrders(targets) ==
    LET pop == { c \in Range(targets) : c \in Populated }
        NotPop(c) == c \notin Populated
        rest == SelectSeq(targets, NotPop)
    IN  { f \o rest : f \in { g \in [1..Cardinality(pop) -> pop] : Range(g) = pop } }


-----------------------------------------------------------------------------
(* evaluate_evidence applied to evidence lists built one item at a time *)

\* similarity scores of the items: below 0.30, exactly 0.30, above 0.50
EvalScores == {2000, 3000, 6000}
EvalCollections == {"onco_variants", "onco_literature", NoCollection}

EvalItems ==
    { [record_id |-> "r", collection |-> c, score |-> sc, raw |-> sc, scored |-> TRUE] :
        c \in EvalCollections, sc \in EvalScores }
    \cup
    { [record_id |-> "r", collection |-> c, score |-> 0, raw |-> 0, scored |-> FALSE] :
        c \in EvalCollections }

\* run() has not been called
RunIdle ==
    /\ pc = "idle" /\ question = NoQuestion /\ plan = search_plan(NoQuestion)
    /\ queries_to_run = <<>> /\ qi = 0 /\ attempt = 0
    /\ all_evidence = <<>> /\ verdict = "none" /\ handed = <<>>
    /\ down = {} /\ expander = "absent" /\ faults = 0
    /\ passes = 0 /\ embedFault = FALSE /\ sent_filters = <<>>

EvalIdle == ev_list = <<>> /\ ev_verdict = "none"

FanIdle ==
    /\ fan_pc = "idle" /\ fan_filter = <<>> /\ fan_down = {} /\ fan_hung = {}
    /\ fut = <<>> /\ fut_result = <<>> /\ all_hits = <<>>

MergeIdle ==
    mr_pad = <<>> /\ mr_input = <<>> /\ mr_output = <<>> /\ mr_again = <<>>

WeightIdle ==
    /\ wt_raw = 0 /\ wt_weight = 0
    /\ wt_before = <<>> /\ wt_after = <<>> /\ wt_ranked = <<>>

SharedIdle ==
    sh_mode = "fresh" /\ sh_heap = <<>> /\ sh_calls = 0 /\ sh_produced = {}

RetrieveIdle ==
    rt_orders = <<>> /\ rt_result = <<>> /\ rt_batches = 0 /\ rt_embeds = 0

UnitIdle == MergeIdle /\ WeightIdle /\ SharedIdle /\ RetrieveIdle

InitEval ==
    /\ RunIdle /\ FanIdle /\ UnitIdle
    /\ corpus = "empty"
    /\ ev_list = <<>>
    /\ ev_verdict = evaluate_evidence(<<>>)

\* evidence + [item], then evaluate_evidence
EvalAppend ==
    /\ Len(ev_list) < MaxEvidenceLen
    /\ \E item \in EvalItems :
         /\ ev_list' = Append(ev_list, item)
         /\ ev_verdict' = evaluate_evidence(ev_list')
    /\ UNCHANGED <<runVars, fanVars, unitVars>>

NextEval == EvalAppend

SpecEval == InitEval /\ [][NextEval]_vars

-----------------------------------------------------------------------------
(* _merge_and_rank applied to hit lists: a starting list, then hits appended *)
(* one at a time                                                             *)

PadIds ==
    << "p01", "p02", "p03", "p04", "p05", "p06", "p07", "p08",
       "p09", "p10", "p11", "p12", "p13", "p14", "p15", "p16",
       "p17", "p18", "p19", "p20", "p21", "p22", "p23", "p24",
       "p25", "p26", "p27", "p28", "p29", "p30", "p31", "p32" >>

\* a hit as _search_one leaves it: the score is the weighted score
RankedHit(id, coll, weighted) ==
    [record_id |-> id, collection |-> coll, score |-> weighted,
     raw |-> weighted, scored |-> TRUE]

\* starting lists: none, more than 30 hits in descending, ascending and equal
\* scores, and 16 hits followed by the same 16 identifiers at higher scores
PadLists ==
    [ none |-> <<>>,
      down |-> [i \in 1..31 |-> RankedHit(PadIds[i], "onco_trials", 4000 - 100 * i)],
      up   |-> [i \in 1..32 |-> RankedHit(PadIds[i], "onco_trials", 100 * i)],
      flat |-> [i \in 1..31 |-> RankedHit(PadIds[i], "onco_trials", 1500)],
      dup  |-> [i \in 1..32 |->
                  IF i <= 16 THEN RankedHit(PadIds[i], "onco_trials", 100 * i)
                  ELSE RankedHit(PadIds[i - 16], "onco_variants", 5000 + 100 * i)] ]

\* the hits appended: two identifiers, each at two scores, and one identifier
\* of the starting lists at a high score
MergeItems ==
    { RankedHit(id, "onco_literature", sc) : id \in {"a", "b"}, sc \in {1000, 2000} }
    \cup { RankedHit("p01", "onco_literature", 9000) }

InitMerge ==
    /\ RunIdle /\ corpus = "empty" /\ EvalIdle /\ FanIdle /\ WeightIdle /\ SharedIdle
    /\ RetrieveIdle
    /\ mr_pad \in Range(PadLists)
    /\ mr_input = mr_pad
    /\ mr_output = merge_and_rank(mr_input)
    /\ mr_again = merge_and_rank(mr_output)

\* _merge_and_rank(hits + [item]), and _merge_and_rank of the result
MergeAppend ==
    /\ Len(mr_input) < Len(mr_pad) + MaxMergeLen
    /\ \E item \in MergeItems :
         /\ mr_input' = Append(mr_input, item)
         /\ mr_output' = merge_and_rank(mr_input')
         /\ mr_again' = merge_and_rank(mr_output')
    /\ UNCHANGED <<mr_pad, runVars, evalVars, fanVars, weightVars, sharedVars,
                   retrieveVars>>

NextMerge == MergeAppend

SpecMerge == InitMerge /\ [][NextMerge]_vars

-----------------------------------------------------------------------------
(* _search_all_collections one future at a time.  The pool runs at most     *)
(* max_workers tasks at once and takes them from its queue in submission    *)
(* order; as_completed hands the finished futures to the calling thread in  *)
(* any order, and only the calling thread extends all_hits.                 *)

\* collections_filter arguments: names of the table and one name outside it
FanNames == {"onco_variants", "onco_literature", "no_such_collection"}
FanFilters == UNION { [1..n -> FanNames] : n \in 0..MaxFilterLen }
FanDownSets == { {}, {"onco_variants"} }
FanHungSets == { {}, {"onco_literature"} }
FanCorpora == {"five"}

target_collections == TargetCollections(fan_filter)

\* a pool with one worker per target collection
max_workers_per_target == Len(target_collections)

max_workers == Min(Len(target_collections), MAX_POOL)

Running == { i \in DOMAIN fut : fut[i] = "running" }

InitFan ==
    /\ RunIdle /\ EvalIdle /\ UnitIdle
    /\ corpus \in FanCorpora
    /\ fan_pc = "idle"
    /\ fan_filter \in FanFilters
    /\ fan_down \in FanDownSets
    /\ fan_hung \in FanHungSets
    /\ fut = <<>> /\ fut_result = <<>> /\ all_hits = <<>>

\* ThreadPoolExecutor(max_workers=...) and the pool.submit comprehension
FanSubmit ==
    /\ fan_pc = "idle"
    /\ IF max_workers = 0
       THEN /\ fan_pc' = "raised"
            /\ UNCHANGED <<fut, fut_result>>
       ELSE /\ fan_pc' = "running"
            /\ fut' = [i \in 1..Len(target_collections) |-> "pending"]
            /\ fut_result' = [i \in 1..Len(target_collections) |-> SearchFailed]
    /\ UNCHANGED <<fan_filter, fan_down, fan_hung, all_hits, runVars, evalVars, unitVars>>

\* a free worker takes the oldest queued task
FanStart ==
    /\ fan_pc = "running"
    /\ \E i \in DOMAIN fut :
         /\ fut[i] = "pending"
         /\ \A j \in 1..(i - 1) : fut[j] # "pending"
         /\ Cardinality(Running) < max_workers
         /\ fut' = [fut EXCEPT ![i] = "running"]
    /\ UNCHANGED <<fan_pc, fan_filter, fan_down, fan_hung, fut_result, all_hits, runVars, evalVars, unitVars>>

\* _search_one(name) returns in its worker thread, once the store call has
\* returned or raised: neither the call nor the future has a timeout
FanFinish ==
    /\ fan_pc = "running"
    /\ \E i \in DOMAIN fut :
         /\ fut[i] = "running"
         /\ target_collections[i] \notin fan_hung
         /\ fut' = [fut EXCEPT ![i] = "finished"]
         /\ fut_result' = [fut_result EXCEPT ![i] =
                search_one(target_collections[i], target_collections[i] \in fan_down,
                           StoreHits(corpus, target_collections[i]))]
    /\ UNCHANGED <<fan_pc, fan_filter, fan_down, fan_hung, all_hits, runVars, evalVars, unitVars>>

\* one turn of the as_completed loop in the calling thread
FanCollect ==
    /\ fan_pc = "running"
    /\ \E i \in DOMAIN fut :
         /\ fut[i] = "finished"
         /\ fut' = [fut EXCEPT ![i] = "collected"]
         /\ all_hits' = ExtendWith(all_hits, fut_result[i])
    /\ UNCHANGED <<fan_pc, fan_filter, fan_down, fan_hung, fut_result, runVars, evalVars, unitVars>>

\* a loop that ends at the first future it was handed
as_completed_exhausted_at_first == \E i \in DOMAIN fut : fut[i] = "collected"

\* "for future in as_completed(futures)" has handed out every future
as_completed_exhausted == \A i \in DOMAIN fut : fut[i] = "collected"

\* the loop is over, the with block is left, return all_hits
FanReturn ==
    /\ fan_pc = "running"
    /\ as_completed_exhausted
    /\ fan_pc' = "returned"
    /\ UNCHANGED <<fan_filter, fan_down, fan_hung, fut, fut_result, all_hits, runVars, evalVars, unitVars>>

NextFan == FanSubmit \/ FanStart \/ FanFinish \/ FanCollect \/ FanReturn

SpecFan == InitFan /\ [][NextFan]_vars

-----------------------------------------------------------------------------
(* One hit of a batch while the configured weight of its collection is      *)
(* raised, the raw score and the other hits of the batch being the same     *)

\* raw similarity scores: a cosine similarity lies in [-1, 1]
WeightRaws == {-5000, 0, 5000}
\* configured weights, in hundredths
Weights == 9..(9 + MaxWeightRaise)
\* weighted scores of the other hits
OtherScores == {-500, 0, 500}

OthersLists(id) ==
    { <<>> } \cup { << RankedHit(id, "onco_literature", sc) >> : sc \in OtherScores }

\* the hit as _search_one leaves it under the weight
WeightedHit(rawScore, weight) ==
    [SearchHit("h", "onco_variants", rawScore) EXCEPT !.score = Weighted(rawScore, weight)]

RankBatch(rawScore, weight, before, after) ==
    merge_and_rank(before \o << WeightedHit(rawScore, weight) >> \o after)

InitWeight ==
    /\ RunIdle /\ corpus = "empty" /\ EvalIdle /\ FanIdle /\ MergeIdle /\ SharedIdle
    /\ RetrieveIdle
    /\ wt_raw \in WeightRaws
    /\ wt_weight = 9
    /\ wt_before \in OthersLists("o1")
    /\ wt_after \in OthersLists("o2")
    /\ wt_ranked = RankBatch(wt_raw, wt_weight, wt_before, wt_after)

\* the same batch searched under a higher weight of the hit's collection
RaiseWeight ==
    /\ \E w \in Weights :
         /\ w > wt_weight
         /\ wt_weight' = w
         /\ wt_ranked' = RankBatch(wt_raw, w, wt_before, wt_after)
    /\ UNCHANGED <<wt_raw, wt_before, wt_after, runVars, evalVars, fanVars, mergeVars,
                   sharedVars, retrieveVars>>

NextWeight == RaiseWeight

SpecWeight == InitWeight /\ [][NextWeight]_vars

-----------------------------------------------------------------------------
(* Successive calls of _search_all_collections (primary and expanded search, *)
(* sub-questions, retry attempts) with the hit objects told apart.  A hit    *)
(* object is <<record id, n>>: n is the call that the store made it for, or  *)
(* 0 when the store keeps one object per record and returns it at every call.*)

StoreModes == {"fresh", "shared"}
SharedCorpora == {"five", "hot"}

\* the objects a search of collection coll returns at call n
ReturnedBy(coll, n) ==
    LET rows == IF coll \in DOMAIN Corpus[corpus] THEN Corpus[corpus][coll] ELSE <<>>
    IN  { <<rows[i][1], IF sh_mode = "shared" THEN 0 ELSE n>> : i \in DOMAIN rows }

\* the object as the store made it
StoreObject(o) ==
    LET coll == CHOOSE c \in DOMAIN Corpus[corpus] :
                    \E i \in DOMAIN Corpus[corpus][c] : Corpus[corpus][c][i][1] = o[1]
        row == CHOOSE r \in Range(Corpus[corpus][coll]) : r[1] = o[1]
    IN  SearchHit(o[1], coll, row[2])

InitShared ==
    /\ RunIdle /\ EvalIdle /\ FanIdle /\ MergeIdle /\ WeightIdle /\ RetrieveIdle
    /\ corpus \in SharedCorpora
    /\ sh_mode \in StoreModes
    /\ sh_heap = IF sh_mode = "shared"
                 THEN [o \in UNION { ReturnedBy(c, 0) : c \in Populated } |-> StoreObject(o)]
                 ELSE <<>>
    /\ sh_calls = 0
    /\ sh_produced = {}

\* one call of _search_all_collections on the target collections: every
\* _search_one runs its weighting loop over the objects the store returned
SharedSearch ==
    /\ sh_calls < MaxCalls
    /\ \E targets \in (SUBSET Populated) \ {{}} :
         LET n == sh_calls + 1
             returned == UNION { ReturnedBy(c, n) : c \in targets }
             Object(o) == IF o \in DOMAIN sh_heap THEN sh_heap[o] ELSE StoreObject(o)
         IN  /\ sh_heap' = [o \in DOMAIN sh_heap \cup returned |->
                              IF o \in returned
                              THEN ApplyWeight(Object(o), Object(o).collection)
                              ELSE sh_heap[o]]
             /\ sh_produced' = sh_produced \cup returned
             /\ sh_calls' = n
    /\ UNCHANGED <<sh_mode, runVars, evalVars, fanVars, mergeVars, weightVars,
                   retrieveVars>>

NextShared == SharedSearch

SpecShared == InitShared /\ [][NextShared]_vars

-----------------------------------------------------------------------------
(* Properties of _search_all_collections (SpecFan) *)

\* how many times each hit occurs in a list
Occurrences(s) == [x \in Range(s) |-> Cardinality({ i \in DOMAIN s : s[i] = x })]

\* the target collections whose search raises on every call
FailingTargets == Range(target_collections) \cap fan_down

\* the collections_filter that names the target collections but the failing ones
LeftOut == LET Kept(c) == c \notin fan_down IN SelectSeq(target_collections, Kept)

ResultLeftOut ==
    search_all_collections(corpus, LeftOut, {}, TargetCollections(LeftOut))

FanOver == fan_pc \in {"returned", "raised"}

C11_HungSearchTimesOut == fan_pc = "running" => ENABLED NextFan

-----------------------------------------------------------------------------
(* OncoRAGEngine.retrieve, cross_collection_search and synthesize *)

\* ranked = self._merge_and_rank(all_hits), all_hits being the primary hits
\* extended by the hits of the expanded search
retrieve_hits(primary_hits, expanded_hits) ==
    merge_and_rank(primary_hits \o expanded_hits)

\* flat_hits of synthesize: the evidence items that have a score attribute; it
\* becomes AgentResponse.evidence.hits
synthesize_hits(evidence) ==
    LET HasScoreAttr(e) == TRUE IN SelectSeq(evidence, HasScoreAttr)

-----------------------------------------------------------------------------
(* OncoIntelligenceAgent.run *)

Questions ==
    { [text |-> "general question with no known terms", mentions |-> {}],
      [text |-> "EGFR mutation in NSCLC", mentions |-> {"EGFR", "NSCLC"}],
      [text |-> "EGFR and BRAF in NSCLC", mentions |-> {"EGFR", "BRAF", "NSCLC"}],
      [text |-> "EGFR vs BRAF resistance", mentions |-> {"EGFR", "BRAF", "vs", "resistance"}] }

Expanders == {"absent", "noterms", "terms"}
DownSets == { {}, {"onco_literature"} }

\* the sets of collections whose store call may fail transiently in one batch
FaultSets(used) == { F \in SUBSET Populated : Cardinality(F) <= MaxFaults - used }

Init ==
    /\ EvalIdle /\ FanIdle /\ UnitIdle
    /\ pc = "start"
    /\ question \in Questions
    /\ plan = search_plan(NoQuestion)
    /\ queries_to_run = <<>> /\ qi = 0 /\ attempt = 0
    /\ all_evidence = <<>> /\ verdict = "none" /\ handed = <<>>
    /\ corpus \in CorpusNames
    /\ down \in DownSets
    /\ expander \in Expanders
    /\ faults = 0 /\ passes = 0 /\ embedFault = FALSE /\ sent_filters = <<>>

\* lines 186-200: the plan, the first query list, the first iteration
Plan ==
    /\ pc = "start"
    /\ plan' = search_plan(question)
    /\ queries_to_run' = <<plan'.question>> \o plan'.sub_questions
    /\ attempt' = 1 /\ qi' = 1 /\ passes' = 1
    /\ pc' = "search"
    /\ UNCHANGED <<question, all_evidence, verdict, handed, corpus, down, expander,
                   faults, embedFault, sent_filters, evalVars, fanVars, unitVars>>

\* an expanded search that embeds and searches whenever an expander is set
expanded_batch_runs_whenever_configured(exp) == exp # "absent"

\* "if self.query_expander:" in retrieve and "if not expansion_terms: return []"
\* in _expanded_search: the second embedding and the second batch happen
expanded_batch_runs(exp) == exp # "absent" /\ exp = "terms"

\* retrieve(query) with the outcomes of its one or two batches: F1, F2 are the
\* collections whose store call fails transiently, order1, order2 the
\* completion orders.  The store holds fewer records per collection than top_k
\* (10, and max(10 // 2, 3) = 5 for the expanded search).
retrieve(F1, order1, F2, order2) ==
    LET Result(primary) ==
            LET Ranked(expanded) ==
                    [raised |-> primary.raised \/ expanded.raised,
                     hits |-> retrieve_hits(primary.hits, expanded.hits)]
            IN  Strict(Ranked,
                       IF expanded_batch_runs(expander)
                       THEN search_all_collections(corpus, <<>>, down \cup F2, order2)
                       ELSE [raised |-> FALSE, hits |-> <<>>])
    IN  Strict(Result, search_all_collections(corpus, <<>>, down \cup F1, order1))

\* what the store does to the batches of one retrieve call
BatchOutcomes ==
    { o \in [F1 : FaultSets(faults), order1 : CompletionOrders(CollectionOrder),
             F2 : FaultSets(faults), order2 : CompletionOrders(CollectionOrder)] :
        /\ Cardinality(o.F1) + Cardinality(o.F2) <= MaxFaults - faults
        /\ expander # "terms" => (o.F2 = {} /\ o.order2 = o.order1) }

\* AgentQuery(**kw): the model declares question, cancer_type, gene and
\* include_genomic; a keyword that is no declared field is ignored, a declared
\* field that is not given takes its default
AgentQuery(kw) ==
    [question |-> kw.question,
     cancer_type |-> IF "cancer_type" \in DOMAIN kw THEN kw.cancer_type ELSE "None",
     gene |-> IF "gene" \in DOMAIN kw THEN kw.gene ELSE "None",
     include_genomic |-> IF "include_genomic" \in DOMAIN kw
                         THEN kw.include_genomic ELSE TRUE]

\* the filters dictionary of _search_one, as <<field, value>> pairs, of a call
\* of retrieve that gives no year range: the gene filter
search_filters(coll_name, query) ==
    IF COLLECTION_CONFIG[coll_name].filter_field # "None" /\ query.gene # "None"
    THEN { <<COLLECTION_CONFIG[coll_name].filter_field, query.gene>> }
    ELSE {}

\* an accumulator that is merged and ranked at every query
extend_evidence_merged(evidence, results) == merge_and_rank(evidence \o results)

\* if results: all_evidence.extend(results)
extend_evidence(evidence, results) == evidence \o results

\* lines 201-211, one iteration of "for q in queries_to_run": the query is
\* embedded, searched in every collection (and once more with the expansion
\* terms when an expander returns some), merged and appended
SearchQuery ==
    /\ pc = "search" /\ qi <= Len(queries_to_run)
    /\ sent_filters' = [c \in Range(TargetCollections(<<>>)) |->
            search_filters(c, AgentQuery(
                [question |-> queries_to_run[qi],
                 target_genes |-> plan.target_genes,
                 cancer_types |-> plan.relevant_cancer_types,
                 strategy |-> plan.search_strategy]))]
    /\ \E o \in BatchOutcomes :
         \E result \in { retrieve(o.F1, o.order1, o.F2, o.order2) } :
            /\ faults' = faults + Cardinality(o.F1) + Cardinality(o.F2)
            /\ IF result.raised
               THEN /\ pc' = "raised"
                    /\ UNCHANGED <<all_evidence, qi>>
               ELSE /\ pc' = "search"
                    /\ all_evidence' = extend_evidence(all_evidence, result.hits)
                    /\ qi' = qi + 1
    /\ UNCHANGED <<question, plan, queries_to_run, attempt, verdict, handed, corpus,
                   down, expander, passes, embedFault, evalVars, fanVars, unitVars>>

\* self.embedder.encode raises in _embed_query (for the query, or for the query
\* with its expansion terms): nothing between it and the caller of run() catches
EmbedRaises ==
    /\ pc = "search" /\ qi <= Len(queries_to_run)
    /\ embedFault' = TRUE
    /\ pc' = "raised"
    /\ UNCHANGED <<question, plan, queries_to_run, qi, attempt, all_evidence, verdict,
                   handed, corpus, down, expander, faults, passes, sent_filters, evalVars, fanVars, unitVars>>

\* line 214
Evaluate ==
    /\ pc = "search" /\ qi > Len(queries_to_run)
    /\ verdict' = evaluate_evidence(all_evidence)
    /\ pc' = "evaluated"
    /\ UNCHANGED <<question, plan, queries_to_run, qi, attempt, all_evidence, handed,
                   corpus, down, expander, faults, passes, embedFault, sent_filters, evalVars, fanVars, unitVars>>

\* a break that also takes "partial" for an answer
BreakCondition_on_partial == verdict # "insufficient" \/ attempt > MAX_RETRIES

\* line 223
BreakCondition == verdict = "sufficient" \/ attempt > MAX_RETRIES

\* range(1, self.MAX_RETRIES + 2)
AttemptRange == 1..(MAX_RETRIES + 1)

\* lines 223-224 and 233-237: break, then synthesize
Done ==
    /\ pc = "evaluated" /\ BreakCondition
    /\ handed' = synthesize_hits(all_evidence)
    /\ pc' = "done"
    /\ UNCHANGED <<question, plan, queries_to_run, qi, attempt, all_evidence, verdict,
                   corpus, down, expander, faults, passes, embedFault, sent_filters, evalVars, fanVars, unitVars>>

\* a broadening that sets the strategy whatever it was
broaden_strategy_always(p) == [p EXCEPT !.search_strategy = "broad"]

\* lines 227-228: if plan.search_strategy == "targeted": ... = "broad"
broaden_strategy(p) ==
    IF p.search_strategy = "targeted"
    THEN [p EXCEPT !.search_strategy = "broad"] ELSE p

\* lines 226-230 and the next iteration of the for loop (or its end)
Broaden ==
    /\ pc = "evaluated" /\ ~BreakCondition
    /\ plan' = broaden_strategy(plan)
    /\ queries_to_run' = generate_fallback_queries(plan')
    /\ IF attempt + 1 \in AttemptRange
       THEN /\ attempt' = attempt + 1 /\ qi' = 1 /\ passes' = passes + 1
            /\ pc' = "search"
            /\ UNCHANGED handed
       ELSE /\ handed' = synthesize_hits(all_evidence)
            /\ pc' = "done"
            /\ UNCHANGED <<attempt, qi, passes>>
    /\ UNCHANGED <<question, all_evidence, verdict, corpus, down, expander, faults,
                   embedFault, sent_filters, evalVars, fanVars, unitVars>>

Next == Plan \/ SearchQuery \/ EmbedRaises \/ Evaluate \/ Done \/ Broaden

Spec == Init /\ [][Next]_vars

\* run() is one thread: it takes its next step whenever it has one
FairSpec == Spec /\ WF_vars(Next)

\* run() on a store that holds two records
SparseCorpora == {"pair"}

InitSparse ==
    /\ EvalIdle /\ FanIdle /\ UnitIdle
    /\ pc = "start"
    /\ question \in Questions
    /\ plan = search_plan(NoQuestion)
    /\ queries_to_run = <<>> /\ qi = 0 /\ attempt = 0
    /\ all_evidence = <<>> /\ verdict = "none" /\ handed = <<>>
    /\ corpus \in SparseCorpora
    /\ down \in DownSets
    /\ expander \in Expanders
    /\ passes = 0 /\ faults = 0 /\ embedFault = FALSE /\ sent_filters = <<>>

SpecSparse == InitSparse /\ [][Next]_vars

-----------------------------------------------------------------------------
(* search_plan, as the PLAN step of run(), over the questions that mention   *)
(* any part of a vocabulary                                                  *)

PlanVocabulary ==
    {"EGFR", "BRAF", "NSCLC", "lung", "resistance", "clinical trial", "vs"}

PlanQuestions == { [text |-> "q", mentions |-> m] : m \in SUBSET PlanVocabulary }

InitPlan ==
    /\ EvalIdle /\ FanIdle /\ UnitIdle
    /\ pc = "start"
    /\ question \in PlanQuestions
    /\ plan = search_plan(NoQuestion)
    /\ queries_to_run = <<>> /\ qi = 0 /\ attempt = 0
    /\ all_evidence = <<>> /\ verdict = "none" /\ handed = <<>>
    /\ corpus = "empty" /\ down = {} /\ expander = "absent"
    /\ faults = 0 /\ passes = 0 /\ embedFault = FALSE /\ sent_filters = <<>>

\* _generate_fallback_queries(plan) called on the plan of the question
PlanFallback ==
    /\ pc = "search" /\ attempt = 1 /\ qi = 1
    /\ queries_to_run' = generate_fallback_queries(plan)
    /\ pc' = "fallback"
    /\ UNCHANGED <<question, plan, qi, attempt, all_evidence, verdict, handed, corpus,
                   down, expander, faults, passes, embedFault, sent_filters,
                   evalVars, fanVars, unitVars>>

NextPlan == Plan \/ PlanFallback

SpecPlan == InitPlan /\ [][NextPlan]_vars


-----------------------------------------------------------------------------
(* Claims about evaluate_evidence (SpecEval) *)

\* an item the 0.30 threshold drops
Dropped(e) == e.scored /\ e.score < MIN_SIMILARITY_SCORE

HitCountOf(evidence) ==
    Cardinality({ i \in DOMAIN evidence : ~Dropped(evidence[i]) })

CollectionsOf(evidence) ==
    { evidence[i].collection :
        i \in { j \in DOMAIN evidence : ~Dropped(evidence[j]) } } \ {NoCollection}

C9_SufficiencyMonotone ==
    [][ev_verdict = "sufficient" => ev_verdict' = "sufficient"]_vars

\* a sufficient list to which a dropped item was added
C9_Witness ==
    /\ ev_verdict = "sufficient"
    /\ Len(ev_list) = 4
    /\ evaluate_evidence(SubSeq(ev_list, 1, 3)) = "sufficient"
    /\ Dropped(ev_list[4])

-----------------------------------------------------------------------------
(* Claims about run() (Spec, FairSpec) *)

NoDuplicateIds(hits) ==
    \A i, j \in DOMAIN hits : i # j => hits[i].record_id # hits[j].record_id

SortedByScoreDesc(hits) ==
    \A i \in 1..(Len(hits) - 1) : hits[i].score >= hits[i + 1].score

\* C1: run() executes the SEARCH pass at most MAX_RETRIES + 1 = 3 times, also
\* when evaluate_evidence never returns "sufficient".
C1_RetryBound == passes <= 3

\* three passes, none of which made the evidence sufficient
C1_Witness == pc = "done" /\ passes = 3 /\ verdict = "insufficient"

C3_HandoffMergedRanked ==
    pc = "done" => NoDuplicateIds(handed) /\ SortedByScoreDesc(handed)

\* C4: for a question with two known genes and one known cancer type and a
\* store whose searches yield 5 hits across 3 collections with raw scores
\* >= 0.5, run() ends after exactly one SEARCH/EVALUATE cycle with verdict
\* "sufficient" and hands off exactly 5 items sorted by weighted score.
C4_EndToEnd ==
    ( /\ pc = "done"
      /\ question.text = "EGFR and BRAF in NSCLC"
      /\ corpus = "five" /\ down = {} /\ faults = 0 /\ expander = "absent" )
    => ( /\ passes = 1
         /\ verdict = "sufficient"
         /\ Len(handed) = 5
         /\ SortedByScoreDesc(handed) )

\* C6: after EVALUATE the loop goes to DONE when the verdict is "sufficient" or
\* attempt > 2, and no search follows DONE; otherwise it goes to BROADEN: the
\* fallback queries replace queries_to_run, attempt is incremented and SEARCH
\* runs again.
C6_EvaluateTransitions ==
    [][ /\ pc = "evaluated" =>
              IF verdict = "sufficient" \/ attempt > 2
              THEN /\ pc' = "done"
                   /\ attempt' = attempt /\ passes' = passes
                   /\ all_evidence' = all_evidence
              ELSE /\ pc' = "search"
                   /\ attempt' = attempt + 1 /\ passes' = passes + 1
                   /\ qi' = 1
                   /\ queries_to_run' = generate_fallback_queries(plan)
                   /\ all_evidence' = all_evidence
        /\ pc = "done" => pc' = "done" /\ all_evidence' = all_evidence /\ passes' = passes
      ]_vars

\* DONE on "sufficient" at the second attempt, that is after one BROADEN
C6_Witness == pc = "done" /\ attempt = 2 /\ verdict = "sufficient"

\* C8: in run() the 0.30 filter of the evaluator is applied to the raw
\* similarity score: a hit whose raw score is >= 0.30 counts in hit_count
\* whatever the weight of its collection.
C8_ThresholdOnRawScore ==
    pc = "evaluated" =>
        /\ \A i \in DOMAIN all_evidence :
               all_evidence[i].raw >= MIN_SIMILARITY_SCORE => ~Dropped(all_evidence[i])
        /\ Len(ScoredEvidence(all_evidence)) =
               Cardinality({ i \in DOMAIN all_evidence :
                               all_evidence[i].raw >= MIN_SIMILARITY_SCORE })

\* C10: when the embedding function raises for a query of a SEARCH pass, the
\* query contributes no hit and the pass goes on: run() is not aborted.
C10_EmbedFailureSkipsQuery == embedFault => pc # "raised"

-----------------------------------------------------------------------------
(* Claims about _merge_and_rank (SpecMerge) *)

\* the positions of hits that hold the first occurrence of a record_id
FirstOccurrences(hits) ==
    { i \in DOMAIN hits : \A j \in 1..(i - 1) : hits[j].record_id # hits[i].record_id }

IdsOf(hits) == { hits[i].record_id : i \in DOMAIN hits }

\* C12: the output of _merge_and_rank has no two items with the same
\* record_id, and each item of it is the first occurrence of its record_id in
\* the input, also when a later duplicate has a higher score.
C12_DedupKeepsFirst ==
    /\ NoDuplicateIds(mr_output)
    /\ \A k \in DOMAIN mr_output :
          \E i \in FirstOccurrences(mr_input) : mr_input[i] = mr_output[k]
    /\ Cardinality(IdsOf(mr_input)) <= MAX_EVIDENCE => IdsOf(mr_output) = IdsOf(mr_input)

\* a later duplicate with a higher score than the first occurrence, which is kept
C12_Witness ==
    \E i, j \in DOMAIN mr_input :
        /\ i \in FirstOccurrences(mr_input) /\ i < j /\ j > Len(mr_pad)
        /\ mr_input[j].record_id = mr_input[i].record_id
        /\ mr_input[j].score > mr_input[i].score
        /\ \E k \in DOMAIN mr_output : mr_output[k] = mr_input[i]

\* C13: the output of _merge_and_rank is in non-increasing score, has at most
\* 30 items, and when more than 30 deduplicated items exist it holds 30 and
\* no item left out has a higher score than an item kept.
C13_SortedAndCapped ==
    LET unique == FirstOccurrences(mr_input)
    IN  /\ SortedByScoreDesc(mr_output)
        /\ Len(mr_output) <= 30
        /\ Cardinality(unique) > 30 =>
              /\ Len(mr_output) = 30
              /\ \A i \in unique :
                    (\A k \in DOMAIN mr_output : mr_output[k] # mr_input[i]) =>
                        \A k \in DOMAIN mr_output : mr_input[i].score <= mr_output[k].score

\* more than 30 deduplicated items given in ascending score
C13_Witness ==
    /\ Cardinality(FirstOccurrences(mr_input)) > 30
    /\ Len(mr_output) = 30
    /\ mr_input[1].score < mr_input[2].score
    /\ \E k \in DOMAIN mr_output : mr_output[k].record_id = "a"

\* C14: _merge_and_rank(_merge_and_rank(x)) = _merge_and_rank(x), the same
\* items in the same order.
C14_Idempotent == mr_again = mr_output

\* an input with duplicate identifiers, equal scores and more than 30 items
C14_Witness ==
    /\ Cardinality(FirstOccurrences(mr_input)) > 30
    /\ Len(mr_input) > Cardinality(FirstOccurrences(mr_input))
    /\ \E k \in 1..(Len(mr_output) - 1) : mr_output[k].score = mr_output[k + 1].score
    /\ mr_again = mr_output

-----------------------------------------------------------------------------
(* Claims about the collection weight (SpecWeight) *)

\* the hit in the ranked batch, and its position
RankedScore(ranked) == (CHOOSE h \in Range(ranked) : h.record_id = "h").score

RankedPlace(ranked) == CHOOSE k \in DOMAIN ranked : ranked[k].record_id = "h"

\* C15 as stated, for every raw score: a higher weight gives the hit a strictly
\* higher weighted score and a position that is not lower.
C15_WeightMonotoneAnyRaw ==
    [][ wt_weight' > wt_weight =>
            /\ RankedScore(wt_ranked') > RankedScore(wt_ranked)
            /\ RankedPlace(wt_ranked') <= RankedPlace(wt_ranked) ]_vars

\* C15: for a raw score above 0 a higher weight gives the hit a strictly higher
\* weighted score and a position that is not lower; for a raw score of 0 score
\* and position stay as they are; for a raw score below 0 the weighted score
\* is strictly lower and the position is not higher.
C15_WeightMonotone ==
    [][ wt_weight' > wt_weight =>
            /\ wt_raw > 0 =>
                  /\ RankedScore(wt_ranked') > RankedScore(wt_ranked)
                  /\ RankedPlace(wt_ranked') <= RankedPlace(wt_ranked)
            /\ wt_raw = 0 =>
                  /\ RankedScore(wt_ranked') = RankedScore(wt_ranked)
                  /\ RankedPlace(wt_ranked') = RankedPlace(wt_ranked)
            /\ wt_raw < 0 =>
                  /\ RankedScore(wt_ranked') < RankedScore(wt_ranked)
                  /\ RankedPlace(wt_ranked') >= RankedPlace(wt_ranked) ]_vars

\* the hit has overtaken another hit under a raised weight
C15_Witness ==
    /\ wt_raw > 0 /\ wt_weight > 9
    /\ RankedPlace(wt_ranked) = 1
    /\ RankedPlace(RankBatch(wt_raw, 9, wt_before, wt_after)) = 2

-----------------------------------------------------------------------------
(* Claims about search_plan (SpecPlan) *)

HasComparativeSignal == question.mentions \cap comparative_signals # {}

NothingRecognised ==
    /\ plan.target_genes = <<>>
    /\ plan.relevant_cancer_types = <<>>
    /\ plan.identified_topics = <<>>

StrategyInPriorityOrder ==
    plan.search_strategy =
        IF HasComparativeSignal THEN "comparative"
        ELSE IF plan.target_genes # <<>> /\ plan.relevant_cancer_types # <<>>
             THEN "targeted"
             ELSE "broad"

\* C16 as stated: the strategy is "comparative" on a comparative signal, else
\* "targeted" iff a gene and a cancer type were extracted, else "broad"; and
\* every question with no recognised gene, cancer type or topic gets "broad"
\* and no sub-question.
C16_StrategyBroadWhenNothingRecognised ==
    pc = "search" =>
        /\ StrategyInPriorityOrder
        /\ NothingRecognised =>
              plan.search_strategy = "broad" /\ plan.sub_questions = <<>>

\* C16: the strategy is "comparative" on a comparative signal, else "targeted"
\* iff a gene and a cancer type were extracted, else "broad"; a question with
\* no recognised gene, cancer type or topic gets no sub-question, and "broad"
\* unless it has a comparative signal, which makes it "comparative".
C16_StrategyPriority ==
    pc = "search" =>
        /\ StrategyInPriorityOrder
        /\ NothingRecognised =>
              /\ plan.sub_questions = <<>>
              /\ plan.search_strategy =
                    IF HasComparativeSignal THEN "comparative" ELSE "broad"

\* a comparative signal with a gene and a cancer type extracted
C16_Witness ==
    /\ pc = "search"
    /\ HasComparativeSignal
    /\ plan.target_genes # <<>> /\ plan.relevant_cancer_types # <<>>
    /\ plan.search_strategy = "comparative"

-----------------------------------------------------------------------------
(* Claims about the accumulator and the plan of run() (Spec) *)

IsPrefix(s, t) == Len(s) <= Len(t) /\ SubSeq(t, 1, Len(s)) = s

C18_PlanChangesOnlyByBroadening ==
    [][ /\ pc' = "start" => pc = "start"
        /\ pc # "start" =>
              \/ plan' = plan
              \/ /\ pc = "evaluated"
                 /\ plan.search_strategy = "targeted"
                 /\ plan' = [plan EXCEPT !.search_strategy = "broad"] ]_vars

\* a plan that was made "targeted" and is "broad" at DONE
C18_Witness ==
    /\ pc = "done"
    /\ plan.search_strategy = "broad"
    /\ plan = [search_plan(question) EXCEPT !.search_strategy = "broad"]
    /\ search_plan(question).search_strategy = "targeted"

-----------------------------------------------------------------------------
(* retrieve on one store, for every order in which the searches of its       *)
(* batches complete; no store call fails transiently.                        *)

RetrieveCorpora == {"five", "hot", "tie", "twin"}

InitRetrieve ==
    /\ EvalIdle /\ FanIdle /\ MergeIdle /\ WeightIdle /\ SharedIdle /\ RetrieveIdle
    /\ pc = "idle" /\ question = NoQuestion /\ plan = search_plan(NoQuestion)
    /\ queries_to_run = <<>> /\ qi = 0 /\ attempt = 0
    /\ all_evidence = <<>> /\ verdict = "none" /\ handed = <<>>
    /\ faults = 0 /\ passes = 0 /\ embedFault = FALSE /\ sent_filters = <<>>
    /\ corpus \in RetrieveCorpora
    /\ down \in DownSets
    /\ expander \in Expanders

\* one call of retrieve: the futures of each batch complete in some order
RetrieveCall ==
    /\ \E order1, order2 \in CompletionOrders(CollectionOrder) :
         /\ expander # "terms" => order2 = order1
         /\ rt_orders' = <<order1, order2>>
         /\ \E result \in { retrieve({}, order1, {}, order2) } :
                rt_result' = result.hits
    /\ rt_embeds' = 1 + (IF expanded_batch_runs(expander) THEN 1 ELSE 0)
    /\ rt_batches' = 1 + (IF expanded_batch_runs(expander) THEN 1 ELSE 0)
    /\ UNCHANGED <<runVars, evalVars, fanVars, mergeVars, weightVars, sharedVars>>

NextRetrieve == RetrieveCall

SpecRetrieve == InitRetrieve /\ [][NextRetrieve]_vars

-----------------------------------------------------------------------------
(* Claims about the hits of successive searches (SpecShared) *)

\* C19: every hit a search has produced has the weighted score raw score x
\* weight of its collection, the weight applied once, and keeps it: also when
\* the store returns the same object to more than one search call.
C19_WeightAppliedOnce ==
    \A o \in sh_produced :
        sh_heap[o].score =
            Weighted(sh_heap[o].raw, COLLECTION_CONFIG[sh_heap[o].collection].weight)

-----------------------------------------------------------------------------
(* Claims about retrieve under completion orders (SpecRetrieve) *)

\* C20: for fixed per-collection search results retrieve returns the same
\* ranked list, same items in the same order, whatever the order in which the
\* searches of a batch complete: the list it returns is the one it returns
\* when the searches complete in submission order.
C20_OrderIndependent ==
    rt_orders # <<>> =>
        rt_result = retrieve({}, CollectionOrder, {}, CollectionOrder).hits

-----------------------------------------------------------------------------
(* Claims about the filters of the searches of run() (Spec) *)

\* the collections whose table entry names an entity filter field
EntityFilterCollections ==
    { c \in CollectionNames : COLLECTION_CONFIG[c].filter_field # "None" }

\* C21: in each SEARCH pass, when the plan has at least one extracted gene, the
\* store call to every collection that supports an entity filter carries a
\* gene filter.
C21_GeneFilterReachesSearch ==
    (sent_filters # <<>> /\ plan.target_genes # <<>>) =>
        \A c \in EntityFilterCollections :
            \E f \in sent_filters[c] : f[1] = "gene"

-----------------------------------------------------------------------------
(* Claims about _generate_fallback_queries (SpecPlan) *)

\* C22: for a plan with genes G and cancer types C the fallback list has
\* 2*|G| + |C| queries, two per gene and then one per cancer type, when G or C
\* is not empty, and is the one query made of the question when both are
\* empty; it is never empty.
C22_FallbackCount ==
    pc = "fallback" =>
        LET G == plan.target_genes
            C == plan.relevant_cancer_types
        IN  /\ queries_to_run # <<>>
            /\ IF G = <<>> /\ C = <<>>
               THEN queries_to_run = << plan.question \o <<"precision oncology">> >>
               ELSE /\ Len(queries_to_run) = 2 * Len(G) + Len(C)
                    /\ \A i \in 1..Len(G) :
                          /\ queries_to_run[2 * i - 1][1] = G[i]
                          /\ queries_to_run[2 * i][1] = G[i]
                    /\ \A j \in 1..Len(C) :
                          queries_to_run[2 * Len(G) + j][1] = C[j]

C22_Witness ==
    /\ pc = "fallback"
    /\ Len(plan.target_genes) = 2 /\ Len(plan.relevant_cancer_types) >= 1
    /\ Len(queries_to_run) >= 5

-----------------------------------------------------------------------------
(* Claims about the workers of a batch (SpecFan) *)

\* the hits of the worker results the calling thread has taken so far
CollectedHits ==
    Flatten([i \in DOMAIN fut |->
                IF fut[i] = "collected" THEN fut_result[i].hits ELSE <<>>])

\* store calls issued for collection c: one by every _search_one that started
StoreCalls(c) ==
    Cardinality({ i \in DOMAIN fut : target_collections[i] = c /\ fut[i] # "pending" })

\* the collections_filter intersected with the table, or the whole table
TargetSet ==
    IF fan_filter # <<>> THEN Range(fan_filter) \cap CollectionNames ELSE CollectionNames

\* C23: _search_all_collections returns only after every worker of the batch
\* has completed: at its return no search of the batch is in progress or
\* waiting and no worker result is still to be appended.
C23_Barrier ==
    fan_pc = "returned" =>
        /\ \A i \in DOMAIN fut : fut[i] = "collected"
        /\ Len(fut) = Len(target_collections)
        /\ Occurrences(all_hits) = Occurrences(CollectedHits)

C23_Witness ==
    /\ fan_pc = "returned" /\ fan_filter = <<>> /\ Len(all_hits) = 5

\* C24: single writer: all_hits changes only when the calling thread takes one
\* finished worker result, and under every interleaving it holds each hit of
\* every result taken exactly as often as the workers returned it.
C24_SingleWriter ==
    /\ [](Occurrences(all_hits) = Occurrences(CollectedHits))
    /\ [][all_hits' # all_hits =>
            \E i \in DOMAIN fut :
                /\ fut[i] = "finished" /\ fut' = [fut EXCEPT ![i] = "collected"]
                /\ all_hits' = all_hits \o fut_result[i].hits]_vars

C24_Witness ==
    /\ fan_pc = "running" /\ Len(all_hits) = 2
    /\ Cardinality(Running) >= 1
    /\ \E i \in DOMAIN fut : fut[i] = "finished" /\ fut_result[i].hits # <<>>

\* C25: at most min(number of target collections, 8) searches are in progress
\* at the same time, and none is in progress after the return.
C25_PoolBound ==
    /\ Cardinality(Running) <= Min(Len(target_collections), MAX_POOL)
    /\ fan_pc = "returned" => Running = {}

C25_Witness ==
    /\ Len(target_collections) > MAX_POOL
    /\ Cardinality(Running) = MAX_POOL
    /\ \E i \in DOMAIN fut : fut[i] = "pending"

\* C26: a batch that has returned has issued exactly one store call for each
\* collection of the target set and none for any other name.
C26_OneCallPerTarget ==
    fan_pc = "returned" =>
        \A c \in CollectionNames \cup FanNames :
            StoreCalls(c) = IF c \in TargetSet THEN 1 ELSE 0

\* C28: with a non-empty collections_filter that names no collection of the
\* table, _search_all_collections returns the empty list and does not raise.
C28_EmptyTargetsReturnEmpty ==
    (fan_filter # <<>> /\ target_collections = <<>> /\ fan_pc # "idle") =>
        (fan_pc = "returned" /\ all_hits = <<>>)

-----------------------------------------------------------------------------
(* Claims about the batches of retrieve (SpecRetrieve) *)

\* C27: a call of retrieve runs the primary batch, and one expanded batch
\* exactly when an expander is configured and returns a term; without it there
\* is no second embedding call and no second batch; never more than two.
C27_AtMostTwoBatches ==
    rt_orders # <<>> =>
        /\ rt_batches = (IF expander = "terms" THEN 2 ELSE 1)
        /\ rt_embeds = rt_batches
        /\ rt_batches <= 2

C27_Witness ==
    /\ rt_orders # <<>> /\ expander = "terms" /\ rt_batches = 2
    /\ rt_orders[1] # rt_orders[2]

-----------------------------------------------------------------------------
(* Claims about the verdict and the accumulator of run() (Spec) *)

\* C29: the verdict of run() is that of the accumulator without its repeated
\* record identifiers: a record found for several queries or passes counts
\* once.
C29_VerdictIgnoresDuplicates ==
    pc = "evaluated" => verdict = evaluate_evidence(Dedupe(all_evidence))

\* the search strategies of a plan
Strategies == {"broad", "targeted", "comparative"}

\* C30: the fallback query list depends on the question, the genes and the
\* cancer types of the plan only, not on its strategy or on the attempt: the
\* second broadening gives the query list the first broadening gave.
C30_FallbackIgnoresStrategyAndAttempt ==
    /\ [](pc # "start" =>
            \A st \in Strategies :
                generate_fallback_queries([plan EXCEPT !.search_strategy = st])
                    = generate_fallback_queries(plan))
    /\ [][(pc = "evaluated" /\ pc' = "search" /\ attempt >= 2) =>
            queries_to_run' = queries_to_run]_vars

C30_Witness ==
    /\ pc = "search" /\ attempt = 3 /\ qi = 1
    /\ plan.search_strategy = "broad" /\ plan.target_genes # <<>>
    /\ plan.relevant_cancer_types # <<>>

====
